---- MODULE Spec2Model ----
(***************************************************************************)
(* A model of src/debug.ts: the namespace selector compiler (enable,       *)
(* disable, regexpToNamespace), the enablement test (enabled), the         *)
(* formatter pre-pass (applyFormatters) and the logger instances with      *)
(* their registry (createDebug, extend, destroy, the debug call).          *)
(*                                                                         *)
(* JavaScript strings are modelled as sequences of one-character strings:  *)
(* "a:*" is <<"a", ":", "*">>.  A RegExp object is modelled by its pattern *)
(* text, "^" and "$" included, and RegExp.prototype.test by a matcher for  *)
(* the part of the ECMAScript pattern grammar the compiler can produce     *)
(* from the modelled alphabet: literal characters, ".", the quantifiers    *)
(* "*" and "?" with their lazy forms, and the assertions "^" and "$".      *)
(* The alphabet has no "/" and no "\", so RegExp.prototype.source is the   *)
(* pattern text itself.                                                    *)
(***************************************************************************)
EXTENDS Integers, Sequences, FiniteSets, TLC

VARIABLES
  names,       \* debug.ts:44  let names: RegExp[]
  skips,       \* debug.ts:45  let skips: RegExp[]
  envDEBUG,    \* debug.ts:35  currentEnv.DEBUG (<<>> when the variable is deleted)
  formatters,  \* debug.ts:47  the letters that have a function in createDebug.formatters
  instances,   \* debug.ts:40  let instances: DebugInstance[] (instance ids, in order)
  inst,        \* the DebugInstance objects created so far, by id
  clock,       \* the value Number(new Date()) returns now
  ret          \* what the last call did: its kind, arguments, result and effects

vars == <<names, skips, envDEBUG, formatters, instances, inst, clock, ret>>

----------------------------------------------------------------------------
(* Bounds of the model. *)

MaxSelLen == 3
MaxNsLen == 3
MaxInst == 2
MaxRegistry == 3
MaxClock == 2
MaxTplLen == 4
MaxVals == 2

----------------------------------------------------------------------------
(* Strings. *)

RECURSIVE SeqsUpTo(_, _)
SeqsUpTo(S, n) ==
  IF n = 0 THEN {<<>>}
  ELSE LET shorter == SeqsUpTo(S, n - 1)
       IN  shorter \cup {Append(s, c) : s \in {t \in shorter : Len(t) = n - 1}, c \in S}

\* /[\s,]+/ restricted to the modelled alphabet
Separators == {",", " ", "\n"}

\* Characters "." does not match (no s flag): the line terminators
LineTerminators == {"\n"}

\* String.prototype.split(/[\s,]+/): the pieces between the maximal runs of
\* separators, the empty pieces at either end included.
RECURSIVE splitFrom(_, _, _, _)
splitFrom(s, i, cur, inRun) ==
  IF i > Len(s) THEN <<cur>>
  ELSE IF s[i] \in Separators
       THEN IF inRun THEN splitFrom(s, i + 1, cur, TRUE)
            ELSE <<cur>> \o splitFrom(s, i + 1, <<>>, TRUE)
       ELSE splitFrom(s, i + 1, Append(cur, s[i]), FALSE)

split(s) == splitFrom(s, 1, <<>>, FALSE)

\* namespace.replace(/\*/g, ".*?")
RECURSIVE replaceStars(_)
replaceStars(s) ==
  IF s = <<>> THEN <<>>
  ELSE (IF Head(s) = "*" THEN <<".", "*", "?">> ELSE <<Head(s)>>) \o replaceStars(Tail(s))

----------------------------------------------------------------------------
(* Regular expressions. *)

\* new RegExp(p) throws a SyntaxError when a quantifier has nothing to repeat:
\* "*" or "?" at the start, after an assertion, or after a complete quantifier.
\* st: "none" (nothing to repeat), "atom", "quant" (may still take a lazy "?").
RECURSIVE validFrom(_, _, _)
validFrom(p, i, st) ==
  IF i > Len(p) THEN TRUE
  ELSE IF p[i] \in {"^", "$"} THEN validFrom(p, i + 1, "none")
  ELSE IF p[i] = "*" THEN st = "atom" /\ validFrom(p, i + 1, "quant")
  ELSE IF p[i] = "?" THEN
         \/ st = "atom" /\ validFrom(p, i + 1, "quant")
         \/ st = "quant" /\ validFrom(p, i + 1, "none")
  ELSE validFrom(p, i + 1, "atom")

RegExpValid(p) == validFrom(p, 1, "none")

atomMatches(a, c) == IF a = "." THEN c \notin LineTerminators ELSE a = c

\* The position after the quantifier (if any) of the atom at p[i].
afterTerm(p, i) ==
  IF i + 1 <= Len(p) /\ p[i + 1] \in {"*", "?"}
  THEN IF i + 2 <= Len(p) /\ p[i + 2] = "?" THEN i + 3 ELSE i + 2
  ELSE i + 1

\* Whether pattern p from position i matches string s from position j, with
\* backtracking.  Greedy and lazy quantifiers accept the same strings.
RECURSIVE matchFrom(_, _, _, _)
matchFrom(p, i, s, j) ==
  IF i > Len(p) THEN TRUE
  ELSE IF p[i] = "^" THEN j = 1 /\ matchFrom(p, i + 1, s, j)
  ELSE IF p[i] = "$" THEN j = Len(s) + 1 /\ matchFrom(p, i + 1, s, j)
  ELSE LET q    == IF i + 1 <= Len(p) /\ p[i + 1] \in {"*", "?"} THEN p[i + 1] ELSE "1"
           nxt  == afterTerm(p, i)
           here == j <= Len(s) /\ atomMatches(p[i], s[j])
       IN  CASE q = "*" -> matchFrom(p, nxt, s, j) \/ (here /\ matchFrom(p, i, s, j + 1))
             [] q = "?" -> matchFrom(p, nxt, s, j) \/ (here /\ matchFrom(p, nxt, s, j + 1))
             [] OTHER   -> here /\ matchFrom(p, nxt, s, j + 1)

\* RegExp.prototype.test
test(regexp, str) == matchFrom(regexp, 1, str, 1)

----------------------------------------------------------------------------
(* The enablement test. *)

\* for (const r of list) if (r.test(namespace)) return ...: the loop with its
\* early return, as the index of the first rule that matches (0: none).
RECURSIVE firstMatch(_, _, _)
firstMatch(list, k, namespace) ==
  IF k > Len(list) THEN 0
  ELSE IF test(list[k], namespace) THEN k
  ELSE firstMatch(list, k + 1, namespace)

\* enabledIn with the allow rules tried before the deny rules
enabledInAllowFirst(namespace, nm, sk) ==
  IF Len(namespace) > 0 /\ namespace[Len(namespace)] = "*" THEN TRUE
  ELSE IF firstMatch(nm, 1, namespace) # 0 THEN TRUE
  ELSE FALSE

\* enabled(namespace), reading the rule lists given
enabledIn(namespace, nm, sk) ==
  IF Len(namespace) > 0 /\ namespace[Len(namespace)] = "*" THEN TRUE
  ELSE IF firstMatch(sk, 1, namespace) # 0 THEN FALSE
  ELSE IF firstMatch(nm, 1, namespace) # 0 THEN TRUE
  ELSE FALSE

\* enabled(namespace), reading the current names and skips
enabled(namespace) == enabledIn(namespace, names, skips)

----------------------------------------------------------------------------
(* The selector compiler. *)

\* An argument of enable: a string, or a value that is not a string.
StringArg(s) == [type |-> "string", value |-> s]
UndefinedArg == [type |-> "undefined", value |-> <<>>]

\* The forEach of enable over the mapped tokens toks[k..]: pushes a RegExp per
\* non-empty token, and stops at the first token whose pattern new RegExp
\* rejects (the SyntaxError leaves enable with the rules pushed so far).
RECURSIVE compileFrom(_, _, _, _)
compileFrom(toks, k, nm, sk) ==
  IF k > Len(toks) THEN [names |-> nm, skips |-> sk, threw |-> FALSE]
  ELSE LET ns == toks[k]
       IN  IF ns = <<>> THEN compileFrom(toks, k + 1, nm, sk)
           ELSE LET deny    == ns[1] = "-"
                    pattern == <<"^">> \o (IF deny THEN Tail(ns) ELSE ns) \o <<"$">>
                IN  IF ~RegExpValid(pattern)
                    THEN [names |-> nm, skips |-> sk, threw |-> TRUE]
                    ELSE IF deny
                         THEN compileFrom(toks, k + 1, nm, Append(sk, pattern))
                         ELSE compileFrom(toks, k + 1, Append(nm, pattern), sk)

\* The rule lists enable(namespaces) builds, and whether it threw on the way.
compile(namespaces) ==
  LET str    == IF namespaces.type = "string" THEN namespaces.value ELSE <<>>
      pieces == split(str)
      toks   == [k \in 1..Len(pieces) |-> replaceStars(pieces[k])]
  IN  compileFrom(toks, 1, <<>>, <<>>)

\* updateNamespacesEnv(namespaces): a falsy value deletes the variable
updateNamespacesEnv(namespaces) ==
  envDEBUG' = IF namespaces.type = "string" THEN namespaces.value ELSE <<>>

\* recomputeAll visiting every object ever created, registered or not
recomputeEvery(nm, sk) ==
  [i \in DOMAIN inst |-> [inst[i] EXCEPT !.enabled = enabledIn(inst[i].namespace, nm, sk)]]

\* instances.forEach(instance => instance.enabled = enabled(instance.namespace))
\* against the rule lists nm and sk; the objects no longer in the registry keep
\* their flag.
recomputeAll(nm, sk) ==
  [i \in DOMAIN inst |->
     IF \E k \in 1..Len(instances) : instances[k] = i
     THEN [inst[i] EXCEPT !.enabled = enabledIn(inst[i].namespace, nm, sk)]
     ELSE inst[i]]

\* enable(namespaces): everything but the record of the call.  When new RegExp
\* throws, the lists hold the rules pushed before it and the instances are not
\* visited.
enable(namespaces) ==
  LET c == compile(namespaces)
  IN  /\ updateNamespacesEnv(namespaces)
      /\ names' = c.names
      /\ skips' = c.skips
      /\ inst' = IF c.threw THEN inst ELSE recomputeAll(c.names, c.skips)
      /\ UNCHANGED <<formatters, instances, clock>>

\* regexpToNamespace(regexp): toString() is "/" source "/"; substring(2, length - 2)
\* drops "/^" and "$/"; replace(/\.\*\?$/, "*") rewrites one ".*?" at the very end.
regexpToNamespace(regexp) ==
  LET str  == <<"/">> \o regexp \o <<"/">>
      body == SubSeq(str, 3, Len(str) - 2)
      n    == Len(body)
  IN  IF n >= 3 /\ SubSeq(body, n - 2, n) = <<".", "*", "?">>
      THEN SubSeq(body, 1, n - 3) \o <<"*">>
      ELSE body

\* Array.prototype.join(",")
RECURSIVE join(_)
join(list) ==
  IF list = <<>> THEN <<>>
  ELSE IF Len(list) = 1 THEN list[1]
  ELSE list[1] \o <<",">> \o join(Tail(list))

\* The string disable() returns for the rule lists nm and sk.
disableString(nm, sk) ==
  join([k \in 1..Len(nm) |-> regexpToNamespace(nm[k])]
       \o [k \in 1..Len(sk) |-> <<"-">> \o regexpToNamespace(sk[k])])

\* disable(): the string of the current rules, then enable("").
disable ==
  /\ enable(StringArg(<<>>))
  /\ ret' = [op |-> "disable", value |-> disableString(names, skips),
             priorNames |-> names, priorSkips |-> skips,
             afterEnable |-> (ret.op = "enable" /\ ~ret.threw)]

\* A call of enable from the host program.
CallEnable(namespaces) ==
  /\ enable(namespaces)
  /\ ret' = [op |-> "enable", arg |-> namespaces, threw |-> compile(namespaces).threw]

----------------------------------------------------------------------------
(* The formatter pre-pass. *)

\* The arguments of a debug call: strings, Error objects (with their message),
\* other values (opaque tokens) and undefined.
Str(s) == [t |-> "string", v |-> s]
Err(message) == [t |-> "error", v |-> message]
Val(token) == [t |-> "other", v |-> <<token>>]
Undefined == [t |-> "undefined", v |-> <<>>]

\* [a-zA-Z] restricted to the modelled alphabet
Letters == {"a", "b", "O"}

\* coerce of utils.ts: an Error becomes its message, anything else is kept
coerce(val) == IF val.t = "error" THEN Str(val.v) ELSE val

\* formatter.call(this, val) for the function registered under a letter: the
\* text it returns names the letter and the value it was given.
formatterCall(format, val) == <<"<", format, val.t>> \o val.v \o <<">">>

\* typeof createDebug.formatters[format] === "function"
hasFormatter(fm, format) == format \in fm

\* args.splice(index, 1) on the 0-based index
splice(args, index) ==
  IF index + 1 <= Len(args)
  THEN SubSeq(args, 1, index) \o SubSeq(args, index + 2, Len(args))
  ELSE args

\* indexAfterSplice without the decrement
indexAfterSpliceKept(index) == index

\* index-- after the splice
indexAfterSplice(index) == index - 1

\* The replace callback over every match of /%([a-zA-Z%])/g in tpl from i on.
\* st: the text built so far, the callback's index, the args array as spliced
\* so far, and the formatter calls made.
RECURSIVE replaceDirectives(_, _, _, _)
replaceDirectives(fm, tpl, i, st) ==
  IF i > Len(tpl) THEN st
  ELSE IF tpl[i] = "%" /\ i + 1 <= Len(tpl) /\ tpl[i + 1] \in Letters \cup {"%"}
  THEN LET format == tpl[i + 1]
           match  == <<"%", format>>
       IN  IF format = "%"
           THEN replaceDirectives(fm, tpl, i + 2, [st EXCEPT !.out = @ \o match])
           ELSE LET index == st.index + 1
                IN  IF hasFormatter(fm, format)
                    THEN LET val == IF index + 1 <= Len(st.args)
                                    THEN st.args[index + 1] ELSE Undefined
                         IN  replaceDirectives(fm, tpl, i + 2,
                               [out   |-> st.out \o formatterCall(format, val),
                                index |-> indexAfterSplice(index),
                                args  |-> splice(st.args, index),
                                calls |-> Append(st.calls, [format |-> format, val |-> val])])
                    ELSE replaceDirectives(fm, tpl, i + 2,
                           [st EXCEPT !.out = @ \o match, !.index = index])
  ELSE replaceDirectives(fm, tpl, i + 1, [st EXCEPT !.out = Append(@, tpl[i])])

\* applyFormatters(args) with the formatter table fm: the array it returns and
\* the formatter calls it made, in order.
applyFormatters(fm, args) ==
  LET first   == coerce(IF args = <<>> THEN Undefined ELSE args[1])
      rest    == IF args = <<>> THEN <<>> ELSE Tail(args)
      shifted == IF first.t # "string"
                 THEN <<Str(<<"%", "O">>), first>> \o rest
                 ELSE <<first>> \o rest
      st      == replaceDirectives(fm, shifted[1].v, 1,
                   [out |-> <<>>, index |-> 0, args |-> shifted, calls |-> <<>>])
  IN  [args  |-> <<Str(st.out)>> \o Tail(st.args),
       calls |-> st.calls]

----------------------------------------------------------------------------
(* Logger instances. *)

\* Object.assign(debug, {namespace, ..., enabled: enabled(namespace)}); log is
\* not set, prevTime is declared and not assigned (<<>>).  The color comes
\* from selectColor of utils.ts and takes no part in what is modelled here.
newInstance(namespace) ==
  [namespace |-> namespace, enabled |-> enabled(namespace),
   log |-> "undefined", prevTime |-> <<>>]

\* instances.indexOf(this), 1-based; 0 for -1
indexOf(list, i) ==
  IF \E k \in 1..Len(list) : list[k] = i
  THEN CHOOSE k \in 1..Len(list) : list[k] = i /\ \A j \in 1..(k - 1) : list[j] # i
  ELSE 0

\* createDebug(namespace): the new object is inst[Len(inst) + 1]
createDebug(namespace) ==
  /\ inst' = Append(inst, newInstance(namespace))
  /\ instances' = Append(instances, Len(inst) + 1)

CallCreateDebug(namespace) ==
  /\ createDebug(namespace)
  /\ ret' = [op |-> "createDebug", id |-> Len(inst) + 1, namespace |-> namespace]
  /\ UNCHANGED <<names, skips, envDEBUG, formatters, clock>>

\* The namespace extend builds; delimiter <<>>-wrapped: <<>> is an omitted
\* argument (the default ":"), <<d>> the string d.
extendNamespace(namespace, subNamespace, delimiter) ==
  namespace \o (IF delimiter = <<>> THEN <<":">> ELSE delimiter[1]) \o subNamespace

\* inheritedLog with the override not passed down
inheritedLogNone(parent) == "undefined"

\* newDebug.log = this.log
inheritedLog(parent) == parent.log

\* parent.extend(subNamespace, delimiter)
extend(i, subNamespace, delimiter) ==
  LET newNamespace == extendNamespace(inst[i].namespace, subNamespace, delimiter)
      newDebug     == newInstance(newNamespace)
  IN  /\ inst' = Append(inst, [newDebug EXCEPT !.log = inheritedLog(inst[i])])
      /\ instances' = Append(instances, Len(inst) + 1)

CallExtend(i, subNamespace, delimiter) ==
  /\ extend(i, subNamespace, delimiter)
  /\ ret' = [op |-> "extend", parent |-> i, id |-> Len(inst) + 1,
             subNamespace |-> subNamespace, delimiter |-> delimiter,
             priorParent |-> inst[i], priorInstances |-> instances]
  /\ UNCHANGED <<names, skips, envDEBUG, formatters, clock>>

\* What destroy returns
destroyResult(i) == indexOf(instances, i) # 0

\* destroyed by moving the last entry into the freed place and popping: the
\* instance is removed, the order of the others is not kept
destroyedSwapPop(i) ==
  LET index == indexOf(instances, i)
      n     == Len(instances)
  IN  IF index # 0
      THEN SubSeq([instances EXCEPT ![index] = instances[n]], 1, n - 1)
      ELSE instances

\* instances.splice(index, 1) when index !== -1
destroyed(i) ==
  LET index == indexOf(instances, i)
  IN  IF index # 0
      THEN SubSeq(instances, 1, index - 1) \o SubSeq(instances, index + 1, Len(instances))
      ELSE instances

\* instance.destroy()
CallDestroy(i) ==
  /\ instances' = destroyed(i)
  /\ ret' = [op |-> "destroy", id |-> i, result |-> destroyResult(i),
             priorInstances |-> instances]
  /\ UNCHANGED <<names, skips, envDEBUG, formatters, inst, clock>>

\* instance.log = fn, by the host program
SetLog(i, fn) ==
  /\ inst[i].log # fn
  /\ inst' = [inst EXCEPT ![i].log = fn]
  /\ ret' = [op |-> "setLog", id |-> i]
  /\ UNCHANGED <<names, skips, envDEBUG, formatters, instances, clock>>

\* createDebug.formatters[letter] = fn, by the host program
SetFormatter(letter) ==
  /\ letter \notin formatters
  /\ formatters' = formatters \cup {letter}
  /\ ret' = [op |-> "setFormatter", letter |-> letter]
  /\ UNCHANGED <<names, skips, envDEBUG, instances, inst, clock>>

\* diff = currTime - (prevTime || currTime): an unassigned prevTime and a
\* prevTime of 0 are both falsy
elapsed(prevTime, currTime) ==
  currTime - (IF prevTime = <<>> \/ prevTime = <<0>> THEN currTime ELSE prevTime[1])

\* const logger = debug.log || defaultLogger
logger(log) == IF log = "undefined" THEN "defaultLogger" ELSE log

\* skipped with the enabled check left out
skippedNever(instance) == FALSE

\* Whether the call returns at the enabled check
skipped(instance) == ~instance.enabled

\* instance(...args): the debug call
CallDebug(i, args) ==
  IF skipped(inst[i])
  THEN /\ ret' = [op |-> "debug", id |-> i, prior |-> inst[i], clockReads |-> 0,
                  calls |-> <<>>, written |-> <<>>]
       /\ UNCHANGED <<names, skips, envDEBUG, formatters, instances, inst, clock>>
  ELSE LET currTime == clock
           diff     == elapsed(inst[i].prevTime, currTime)
           applied  == applyFormatters(formatters, args)
           line     == [namespace |-> inst[i].namespace, args |-> applied.args,
                        diff |-> diff]
       IN  /\ inst' = [inst EXCEPT ![i].prevTime = <<currTime>>]
           /\ ret' = [op |-> "debug", id |-> i, prior |-> inst[i], clockReads |-> 1,
                      currTime |-> currTime, diff |-> diff, calls |-> applied.calls,
                      written |-> <<[logger |-> logger(inst[i].log), line |-> line]>>]
           /\ UNCHANGED <<names, skips, envDEBUG, formatters, instances, clock>>

\* Wall-clock time passing between calls
Tick ==
  /\ clock < MaxClock
  /\ clock' = clock + 1
  /\ ret' = [op |-> "tick"]
  /\ UNCHANGED <<names, skips, envDEBUG, formatters, instances, inst>>

----------------------------------------------------------------------------
(* The inputs of the calls. *)

ApiSelector == <<"a","p","i",":","*",",","-","a","p","i",":","i","n","t","e","r","n","a","l">>
ApiInternal == <<"a","p","i",":","i","n","t","e","r","n","a","l">>
ApiPublic == <<"a","p","i",":","p","u","b","l","i","c">>

\* The selectors the registry specifications enable.
MainSelectors ==
  {UndefinedArg, StringArg(<<"*">>), StringArg(<<"a">>),
   StringArg(<<"a", ":", "*", ",", "-", "a", ":", "b">>),
   StringArg(<<"a", ",", "*", "b">>)}

MainNamespaces == {<<"a">>, <<"a", "*">>}
SubNamespaces == {<<"b">>}
Delimiters == {<<>>, <<<<"-">>>>}
Loggers == {"undefined", "customLog"}
MainArgs == {<<Str(<<"%", "a">>), Val("v1")>>}

\* The selectors, namespaces and arguments of the emission specification.
EmitSelectors == {StringArg(<<>>), StringArg(<<"*">>)}
EmitNamespaces == {<<"a">>}
EmitArgs == {<<Str(<<"%", "a">>), Val("v1")>>}

\* The selectors and namespaces of the rule-set specification.
SelAlphabet == {"a", ".", "*", "-", ","}
NsAlphabet == {"a", "b", "*", "\n"}
Selectors ==
  {StringArg(s) : s \in SeqsUpTo(SelAlphabet, MaxSelLen) \cup {ApiSelector}} \cup {UndefinedArg}
Namespaces == SeqsUpTo(NsAlphabet, MaxNsLen) \cup {ApiInternal, ApiPublic}

\* The arguments of the formatter specification.
TplAlphabet == {"%", "a", "b", " "}
Values == <<Val("v1"), Val("v2"), Val("v3"), Val("v4")>>
FmtArgs ==
  {<<Str(tpl)>> \o SubSeq(Values, 1, n) :
     tpl \in SeqsUpTo(TplAlphabet, MaxTplLen), n \in 0..MaxVals}
  \cup {<<Val("obj")>> \o SubSeq(Values, 1, n) : n \in 0..MaxVals}
  \cup {<<>>, <<Err(<<"%", "a">>), Values[1]>>}

----------------------------------------------------------------------------
(* The specifications. *)

\* The module is loaded: enable(currentEnv.DEBUG) has run with DEBUG unset.
Init ==
  /\ names = <<>>
  /\ skips = <<>>
  /\ envDEBUG = <<>>
  /\ formatters = {}
  /\ instances = <<>>
  /\ inst = <<>>
  /\ clock = 0
  /\ ret = [op |-> "load"]

\* enable(s) with the string the disable() before it returned
EnableReturned ==
  /\ ret.op = "disable"
  /\ CallEnable(StringArg(ret.value))

\* The registry: instances are created, extended and destroyed, and given log
\* overrides, while the selector changes.
Next ==
  \/ \E namespace \in MainNamespaces : Len(inst) < MaxInst /\ CallCreateDebug(namespace)
  \/ \E i \in DOMAIN inst, sub \in SubNamespaces, d \in Delimiters :
       Len(inst) < MaxInst /\ CallExtend(i, sub, d)
  \/ \E i \in DOMAIN inst : CallDestroy(i)
  \/ \E i \in DOMAIN inst, fn \in Loggers : SetLog(i, fn)
  \/ \E namespaces \in MainSelectors : CallEnable(namespaces)
  \/ disable
  \/ EnableReturned

Spec == Init /\ [][Next]_vars

\* The registry with more instances: up to MaxRegistry instances are created,
\* extended and destroyed, in any order, while the selector changes.
RegistrySelectors == {UndefinedArg, StringArg(<<"a">>)}

NextRegistry ==
  \/ \E namespace \in MainNamespaces :
       Len(inst) < MaxRegistry /\ CallCreateDebug(namespace)
  \/ \E i \in DOMAIN inst, sub \in SubNamespaces :
       Len(inst) < MaxRegistry /\ CallExtend(i, sub, <<>>)
  \/ \E i \in DOMAIN inst : CallDestroy(i)
  \/ \E namespaces \in RegistrySelectors : CallEnable(namespaces)

SpecRegistry == Init /\ [][NextRegistry]_vars

\* Destroyed instances: instances are created, destroyed and called while the
\* selector changes.
NextFrozen ==
  \/ \E namespace \in MainNamespaces : Len(inst) < MaxInst /\ CallCreateDebug(namespace)
  \/ \E i \in DOMAIN inst : CallDestroy(i)
  \/ \E i \in DOMAIN inst, args \in MainArgs : CallDebug(i, args)
  \/ \E namespaces \in MainSelectors : CallEnable(namespaces)
  \/ disable

SpecFrozen == Init /\ [][NextFrozen]_vars

\* Emission: instances are called while time passes, the selector switches
\* them on and off, and the host sets log overrides and formatters.
NextEmit ==
  \/ \E namespace \in EmitNamespaces : Len(inst) < MaxInst /\ CallCreateDebug(namespace)
  \/ \E i \in DOMAIN inst, fn \in Loggers : SetLog(i, fn)
  \/ \E i \in DOMAIN inst, args \in EmitArgs : CallDebug(i, args)
  \/ \E letter \in {"a"} : SetFormatter(letter)
  \/ \E namespaces \in EmitSelectors : CallEnable(namespaces)
  \/ Tick

SpecEmit == Init /\ [][NextEmit]_vars

\* The rule set alone, under every selector of the bounded alphabet.
NextRules ==
  \/ \E namespaces \in Selectors : CallEnable(namespaces)
  \/ disable
  \/ EnableReturned

SpecRules == Init /\ [][NextRules]_vars

\* applyFormatters alone: the host fills the formatter table, then the
\* function is applied to an argument list.
InitFmt ==
  /\ names = <<>>
  /\ skips = <<>>
  /\ envDEBUG = <<>>
  /\ formatters = {}
  /\ instances = <<>>
  /\ inst = <<>>
  /\ clock = 0
  /\ ret \in {[op |-> "args", args |-> args] : args \in FmtArgs}

SetFormatterFmt(letter) ==
  /\ ret.op = "args"
  /\ formatters' = formatters \cup {letter}
  /\ formatters' # formatters
  /\ UNCHANGED <<names, skips, envDEBUG, instances, inst, clock, ret>>

Format ==
  /\ ret.op = "args"
  /\ ret' = [op |-> "applyFormatters", args |-> ret.args,
             result |-> applyFormatters(formatters, ret.args)]
  /\ UNCHANGED <<names, skips, envDEBUG, formatters, instances, inst, clock>>

NextFmt ==
  \/ \E letter \in Letters : SetFormatterFmt(letter)
  \/ Format

SpecFmt == InitFmt /\ [][NextFmt]_vars

----------------------------------------------------------------------------
(* Properties of the rule set (SpecRules). *)

Range(list) == {list[k] : k \in DOMAIN list}

EndsWithStar(n) == n # <<>> /\ n[Len(n)] = "*"
DenyMatches(n) == \E k \in DOMAIN skips : test(skips[k], n)
AllowMatches(n) == \E k \in DOMAIN names : test(names[k], n)

\* C1: under every rule set enable and disable reach, a namespace is enabled
\* exactly when it ends with "*", or no deny rule matches it and some allow
\* rule does; after enable("api:*,-api:internal"), "api:internal" is disabled
\* and "api:public" is enabled.
C1_EnablementPolicy ==
  /\ \A n \in Namespaces :
       enabled(n) = (EndsWithStar(n) \/ (~DenyMatches(n) /\ AllowMatches(n)))
  /\ (ret.op = "enable" /\ ret.arg = StringArg(ApiSelector))
       => (~enabled(ApiInternal) /\ enabled(ApiPublic))

\* A deny rule overrides a matching allow rule, and a namespace ending with
\* "*" is enabled although a deny rule matches it.
C1_Witness ==
  /\ ret.op = "enable" /\ ret.arg = StringArg(ApiSelector)
  /\ AllowMatches(ApiInternal) /\ DenyMatches(ApiInternal) /\ ~enabled(ApiInternal)
  /\ enabled(ApiPublic)

\* C3 as claimed: after enable(s) and disable(), the lists are empty and
\* enabling the returned string enables exactly the namespaces s enabled.
C3_RoundTrip ==
  (ret.op = "disable" /\ ret.afterEnable) =>
    /\ names = <<>> /\ skips = <<>>
    /\ LET c == compile(StringArg(ret.value))
       IN  /\ ~c.threw
           /\ \A n \in Namespaces :
                enabledIn(n, c.names, c.skips) = enabledIn(n, ret.priorNames, ret.priorSkips)

\* A token as a glob: "*" matches any sequence of characters, every other
\* character matches itself, and the whole namespace is matched.
RECURSIVE glob(_, _)
glob(token, n) ==
  IF token = <<>> THEN n = <<>>
  ELSE IF Head(token) = "*"
       THEN \E k \in 0..Len(n) : glob(Tail(token), SubSeq(n, k + 1, Len(n)))
       ELSE n # <<>> /\ Head(n) = Head(token) /\ glob(Tail(token), Tail(n))

NonEmpty(piece) == piece # <<>>
IsDeny(token) == token[1] = "-"
IsAllow(token) == token[1] # "-"

\* C5 as claimed: every rule enable compiled accepts exactly the namespaces
\* its token matches as a glob.
C5_GlobSemantics ==
  (ret.op = "enable" /\ ret.arg.type = "string" /\ ~ret.threw) =>
    LET tokens == SelectSeq(split(ret.arg.value), NonEmpty)
        allow  == SelectSeq(tokens, IsAllow)
        deny   == SelectSeq(tokens, IsDeny)
    IN  /\ Len(names) = Len(allow) /\ Len(skips) = Len(deny)
        /\ \A n \in Namespaces :
             /\ \A k \in DOMAIN names : test(names[k], n) = glob(allow[k], n)
             /\ \A k \in DOMAIN skips : test(skips[k], n) = glob(Tail(deny[k]), n)

----------------------------------------------------------------------------
(* Properties of the registry (Spec, SpecRegistry, SpecFrozen). *)

Registered(i) == i \in Range(instances)

\* C2 as claimed: every registered instance's flag is enabled(namespace)
\* under the current rules.
C2_FlagsCurrent ==
  \A i \in DOMAIN inst : Registered(i) => inst[i].enabled = enabled(inst[i].namespace)

\* C8: extend returns a new registered instance named parent + delimiter +
\* sub (":" by default), with the parent's log override and its own flag
\* under the current rules; the parent is unchanged.
C8_Extend ==
  ret.op = "extend" =>
    LET p == ret.parent
        c == ret.id
        d == IF ret.delimiter = <<>> THEN <<":">> ELSE ret.delimiter[1]
    IN  /\ c # p /\ c \notin Range(ret.priorInstances)
        /\ inst[c].namespace = ret.priorParent.namespace \o d \o ret.subNamespace
        /\ (ret.priorParent.namespace = <<"a">> /\ ret.subNamespace = <<"b">>) =>
             inst[c].namespace = (IF ret.delimiter = <<>> THEN <<"a", ":", "b">>
                                                          ELSE <<"a", "-", "b">>)
        /\ inst[c].log = ret.priorParent.log
        /\ inst[c].enabled = enabled(inst[c].namespace)
        /\ instances = Append(ret.priorInstances, c)
        /\ inst[p] = ret.priorParent

\* An extend whose parent has a log override and whose child's flag differs
\* from the parent's.
C8_Witness ==
  /\ ret.op = "extend"
  /\ ret.priorParent.log = "customLog"
  /\ inst[ret.id].log = "customLog"
  /\ inst[ret.id].enabled # inst[ret.parent].enabled

C9_State ==
  /\ \A j, k \in DOMAIN instances : instances[j] = instances[k] => j = k
  /\ ret.op \in {"createDebug", "extend"} => Registered(ret.id)
  /\ ret.op = "destroy" =>
       LET Other(x) == x # ret.id
       IN  /\ ret.result = (ret.id \in Range(ret.priorInstances))
           /\ instances = SelectSeq(ret.priorInstances, Other)

C9_Step ==
  \A i \in DOMAIN inst :
    /\ ~Registered(i) => ~(i \in Range(instances'))
    /\ (Registered(i) /\ ~(i \in Range(instances'))) =>
         (ret'.op = "destroy" /\ ret'.id = i /\ ret'.result)

\* C9: destroy returns true exactly when the instance was registered, and
\* then removes it alone, keeping the others in order; otherwise it returns
\* false and changes nothing.  An instance is registered once, at creation,
\* leaves the registry only by a destroy that returns true and never comes
\* back, so its first destroy returns true and every later one false.
C9_Destroy == [](C9_State) /\ [][C9_Step]_vars

\* The middle one of three registered instances is destroyed: the call
\* returns true and the two others stay registered, in their order.
C9_Witness ==
  /\ ret.op = "destroy" /\ ret.id = 2 /\ ret.result
  /\ ret.priorInstances = <<1, 2, 3>> /\ instances = <<1, 3>>

C10_Step ==
  \A i \in DOMAIN inst : ~Registered(i) => inst'[i].enabled = inst[i].enabled

C10_State ==
  ret.op = "debug" => ((Len(ret.written) = 1) = ret.prior.enabled)

\* C10: once destroyed, an instance keeps its flag through every later enable
\* and disable, and a call of it emits exactly when that flag is true.
C10_Frozen == [](C10_State) /\ [][C10_Step]_vars

\* A destroyed instance that emits although the current rules disable its
\* namespace.
C10_Witness ==
  /\ ret.op = "debug" /\ ~Registered(ret.id)
  /\ ret.prior.enabled /\ ~enabled(ret.prior.namespace)
  /\ Len(ret.written) = 1

----------------------------------------------------------------------------
(* Properties of emission (SpecEmit). *)

\* C4: a call of an instance whose flag is false writes nothing, does not
\* read the clock, keeps prevTime and calls no formatter; a call of an
\* instance whose flag is true writes once, to the log override if set and
\* to the default sink otherwise.
C4_DisabledNoOp ==
  ret.op = "debug" =>
    IF ~ret.prior.enabled
    THEN /\ ret.written = <<>> /\ ret.clockReads = 0 /\ ret.calls = <<>>
         /\ inst[ret.id] = ret.prior
    ELSE /\ Len(ret.written) = 1
         /\ ret.written[1].logger =
              (IF ret.prior.log # "undefined" THEN ret.prior.log ELSE "defaultLogger")

\* A disabled call of an instance that has emitted before, at a later time,
\* with a log override and a formatter for the directive of its template.
C4_Witness ==
  /\ ret.op = "debug" /\ ~ret.prior.enabled
  /\ "a" \in formatters
  /\ ret.prior.log = "customLog"
  /\ ret.prior.prevTime # <<>> /\ ret.prior.prevTime[1] < clock

C7_Step ==
  \A i \in DOMAIN inst :
    IF ret'.op = "debug" /\ ret'.id = i /\ inst[i].enabled
    THEN /\ ret'.diff = (IF inst[i].prevTime = <<>> THEN 0 ELSE clock - inst[i].prevTime[1])
         /\ inst'[i].prevTime = <<clock>>
    ELSE inst'[i].prevTime = inst[i].prevTime

\* C7 as claimed: an enabled call's diff is 0 on the instance's first emission
\* and otherwise the clock reading minus that of its previous emission, and
\* prevTime becomes the reading; no other step changes an instance's prevTime.
C7_Elapsed == [][C7_Step]_vars

----------------------------------------------------------------------------
(* Properties of the formatter pre-pass (SpecFmt). *)

\* The matches of /%([a-zA-Z%])/g in tpl from i on, left to right, with the
\* text between them.
RECURSIVE items(_, _)
items(tpl, i) ==
  IF i > Len(tpl) THEN <<>>
  ELSE IF tpl[i] = "%" /\ i + 1 <= Len(tpl) /\ tpl[i + 1] \in Letters \cup {"%"}
       THEN <<[kind |-> IF tpl[i + 1] = "%" THEN "escape" ELSE "directive",
               text |-> <<"%", tpl[i + 1]>>]>> \o items(tpl, i + 2)
       ELSE <<[kind |-> "text", text |-> <<tpl[i]>>]>> \o items(tpl, i + 1)

IsDirective(item) == item.kind = "directive"

\* The text of the items from j on, the next directive being the k-th.
RECURSIVE rendered(_, _, _, _, _)
rendered(fm, its, j, k, vals) ==
  IF j > Len(its) THEN <<>>
  ELSE IF its[j].kind = "directive"
       THEN (IF its[j].text[2] \in fm
             THEN formatterCall(its[j].text[2], IF k <= Len(vals) THEN vals[k] ELSE Undefined)
             ELSE its[j].text) \o rendered(fm, its, j + 1, k + 1, vals)
       ELSE its[j].text \o rendered(fm, its, j + 1, k, vals)

\* The values vals[k..] whose directive has no formatter (or that have none).
RECURSIVE kept(_, _, _, _)
kept(fm, dirs, k, vals) ==
  IF k > Len(vals) THEN <<>>
  ELSE (IF k <= Len(dirs) /\ dirs[k].text[2] \in fm THEN <<>> ELSE <<vals[k]>>)
       \o kept(fm, dirs, k + 1, vals)

Inlined(fm, dirs) == {k \in DOMAIN dirs : dirs[k].text[2] \in fm}

FormatsTemplate == ret.op = "applyFormatters" /\ ret.args # <<>> /\ ret.args[1].t = "string"

\* C6, amended: "%%" stays and takes no value; the k-th other directive is
\* paired with the k-th value (undefined when there is none); with a formatter
\* its text becomes the formatter's result and the value is removed, without
\* one both stay.  The values removed are those of the directives with a
\* formatter among the first n, and the rest keep their order.
C6_FormatterPrePass ==
  FormatsTemplate =>
    LET vals == Tail(ret.args)
        its  == items(ret.args[1].v, 1)
        dirs == SelectSeq(its, IsDirective)
        out  == ret.result.args
    IN  /\ out[1] = Str(rendered(formatters, its, 1, 1, vals))
        /\ Tail(out) = kept(formatters, dirs, 1, vals)
        /\ Len(vals) - Len(Tail(out))
             = Cardinality({k \in Inlined(formatters, dirs) : k <= Len(vals)})
        /\ Len(ret.result.calls) = Cardinality(Inlined(formatters, dirs))

\* C6 as claimed: as many values are removed as there are directives with a
\* formatter.
C6_RemovedCount ==
  FormatsTemplate =>
    LET dirs == SelectSeq(items(ret.args[1].v, 1), IsDirective)
    IN  Len(ret.args) - Len(ret.result.args) = Cardinality(Inlined(formatters, dirs))

\* "%a%b" with two values and a formatter for b alone: v2 is inlined and v1
\* stays.
C6_Witness ==
  /\ FormatsTemplate
  /\ ret.args = <<Str(<<"%", "a", "%", "b">>), Val("v1"), Val("v2")>>
  /\ formatters = {"b"}
  /\ ret.result.args = <<Str(<<"%", "a">> \o formatterCall("b", Val("v2"))), Val("v1")>>

====
